---- MODULE Spec2Model ----
(***************************************************************************)
(* Model of src/script.py: assembly of ACS detailed tables from the        *)
(* per-state summary-file archives (main loop over state, summary level    *)
(* and table), the pandas frame operations it uses, and the append-mode    *)
(* CSV output.                                                             *)
(*                                                                         *)
(* A frame is [columns |-> Seq(name), rows |-> Seq([index, cells])].       *)
(* A CSV file is a sequence of lines, a line a sequence of fields.         *)
(* Inputs are restricted to archives whose catalog sequences all have a    *)
(* template and whose slices lie inside the template (no KeyError on       *)
(* templates[seq], no IndexError in iloc), and whose LOGRECNO and GEOID    *)
(* are unique inside one file.                                             *)
(***************************************************************************)
EXTENDS Integers, Sequences, FiniteSets, TLC

\* ---------------------------------------------------------------- bounds
MaxRuns == 2
MaxGeoRows == 2

\* ------------------------------------------------------ program constants
ConsolidatedCount == 53

tracts_suffix == "_Tracts_Block_Groups_Only.zip"
not_tracts_suffix == "_All_Geographies_Not_Tracts_Block_Groups.zip"
Suffixes == {tracts_suffix, not_tracts_suffix}

\* absent value of a frame cell (numpy NaN)
NaN == "<NaN>"

\* na_values=['.', -1] of read_from_csv
na_values == {".", "-1"}

\* ------------------------------------------------------------- the inputs
SeqIds == {"0001", "0002"}

\* templates dictionary (get_templates): column names per sequence and 'geo'
templates ==
  [key \in SeqIds \cup {"geo"} |->
     CASE key = "0001" -> <<"SEQUENCE", "LOGRECNO", "B01_001", "B01_002">>
       [] key = "0002" -> <<"SEQUENCE", "LOGRECNO", "B02_003">>
       [] OTHER        -> <<"SUMLEVEL", "LOGRECNO", "GEOID">>]

\* the states that have archives on disk; every other state's download failed
RealStates == 1..2

LogRecNos == <<"1", "2", "3", "4">>

GeoIds ==
  [s \in RealStates |->
     [sfx \in Suffixes |->
        IF sfx = tracts_suffix
        THEN IF s = 1 THEN <<"14000US01a", "14000US01b", "14000US01c", "14000US01d">>
                      ELSE <<"14000US02a", "14000US02b", "14000US02c", "14000US02d">>
        ELSE IF s = 1 THEN <<"04000US01", "05000US01a", "04000US01x", "05000US01b">>
                      ELSE <<"04000US02", "05000US02a", "04000US02x", "05000US02b">>]]

\* summary level of the r-th record of a geography file
LevelOfRecord(sfx, r) ==
  IF sfx = tracts_suffix THEN "140"
  ELSE IF r % 2 = 1 THEN "040" ELSE "050"

\* raw text of a geography file with nrec records
GeoFile(s, sfx, nrec) ==
  [r \in 1..nrec |-> <<LevelOfRecord(sfx, r), LogRecNos[r], GeoIds[s][sfx][r]>>]

NaVariants == {"absent", "mixed"}

\* raw text of one value field of an estimate file: every value absent, or
\* the first record with an absent third field and the others complete
RawValue(seq, r, p, nav) ==
  CASE nav = "absent"   -> "."
    [] r = 1 /\ p = 3   -> "-1"
    [] OTHER            -> IF seq = "0001" THEN (IF p = 3 THEN "11" ELSE "12") ELSE "21"

\* raw text of the estimate file of sequence seq with nrec records
EstFile(seq, nrec, nav) ==
  [r \in 1..nrec |->
     [p \in 1..Len(templates[seq]) |->
        CASE p = 1 -> seq
          [] p = 2 -> LogRecNos[r]
          [] OTHER -> RawValue(seq, r, p, nav)]]

FaultKinds == {"missing", "badzip", "nogeo", "geoerr",
               "e1missing", "e1err", "e2missing", "e2err"}

NoFault == [at |-> <<0, "">>, kind |-> "none"]

Faults ==
  {NoFault} \cup [at : RealStates \X Suffixes, kind : FaultKinds]

\* one archive: is it a zip, its geography file, its estimate files by sequence
Archive(s, sfx, nrec, nav, fault) ==
  LET k == IF fault.at = <<s, sfx>> THEN fault.kind ELSE "none"
      present == CASE k = "e1missing" -> {"0002"}
                   [] k = "e2missing" -> {"0001"}
                   [] OTHER -> SeqIds
  IN [iszip   |-> k # "badzip",
      geofile |-> [present  |-> k # "nogeo",
                   readable |-> k # "geoerr",
                   text     |-> GeoFile(s, sfx, nrec)],
      efiles  |-> [q \in present |->
                     [readable |-> ~ ((q = "0001" /\ k = "e1err")
                                      \/ (q = "0002" /\ k = "e2err")),
                      text     |-> EstFile(q, nrec, nav)]]]

\* the archives in the source directory
SourceDir(nrec, nav, fault) ==
  LET there == {a \in RealStates \X Suffixes :
                  ~ (fault.at = a /\ fault.kind = "missing")}
  IN [a \in there |-> Archive(a[1], a[2], nrec, nav, fault)]

ValidSlices(seq) ==
  {se \in (1..Len(templates[seq])) \X (1..Len(templates[seq])) : se[1] <= se[2]}

\* Appendix A: table B01 is one slice of sequence 0001, table B02 has two slices
Catalog(se) ==
  << [name |-> "B01", seq |-> "0001", start |-> se[1], end |-> se[2]],
     [name |-> "B02", seq |-> "0001", start |-> 3, end |-> 4],
     [name |-> "B02", seq |-> "0002", start |-> 3, end |-> 3] >>

StateLists == { <<1, 2>>, [u \in 1..ConsolidatedCount |-> u] }
LevelLists == { <<"040", "050">>, <<"140", "040">>, <<"150">> }
TableLists == { <<"B01", "B02">>, <<"B02", "B99", "B01">> }

\* the slice of table B01 when it is not swept
DefaultSlice == <<3, 4>>

\* ------------------------------------------------------- frame operations
RECURSIVE Flatten(_)
Flatten(ss) == IF ss = <<>> THEN <<>> ELSE Head(ss) \o Flatten(Tail(ss))

ColPos(columns, name) == CHOOSE p \in 1..Len(columns) : columns[p] = name

ReadCell(raw) == IF raw \in na_values THEN NaN ELSE raw

read_from_csv(file, names) ==
  [columns |-> names,
   rows    |-> [r \in 1..Len(file) |->
                  [index |-> "",
                   cells |-> [p \in 1..Len(names) |-> ReadCell(file[r][p])]]]]

read_summary_file(file, names) ==
  LET df == read_from_csv(file, names)
  IN [df EXCEPT !.columns =
        [p \in 1..Len(names) |-> IF names[p] = "SEQUENCE" THEN "seq" ELSE names[p]]]

get_appendix_data(df, table) == SelectSeq(df, LAMBDA row : row.name = table)

\* variant of get_by_summary_level that keeps the records of every level
get_by_summary_level_unfiltered(df, summary_level) == df

get_by_summary_level(df, summary_level) ==
  [df EXCEPT !.rows =
     SelectSeq(df.rows,
               LAMBDA row : row.cells[ColPos(df.columns, "SUMLEVEL")] = summary_level)]

get_logical_records(fp, names, summary_level) ==
  LET gdf == read_from_csv(fp, names)
      summary_geo == get_by_summary_level(gdf, summary_level)
      want == <<"GEOID", "LOGRECNO">>
  IN [columns |-> want,
      rows    |-> [r \in 1..Len(summary_geo.rows) |->
                     [index |-> summary_geo.rows[r].index,
                      cells |-> [p \in 1..Len(want) |->
                                   summary_geo.rows[r].cells[ColPos(gdf.columns, want[p])]]]]]

\* DataFrame.merge: inner join on the common columns, left row order kept
merge(left, right) ==
  LET lc == left.columns
      rc == right.columns
      IsKey(c) == \E p \in 1..Len(lc) : lc[p] = c
      keys == {rc[p] : p \in {q \in 1..Len(rc) : IsKey(rc[q])}}
      extra == SelectSeq(rc, LAMBDA c : ~ IsKey(c))
      Match(l, r) == \A c \in keys : l.cells[ColPos(lc, c)] = r.cells[ColPos(rc, c)]
      Joined(l) ==
        LET rs == SelectSeq(right.rows, LAMBDA r : Match(l, r))
        IN [m \in 1..Len(rs) |->
              [index |-> "",
               cells |-> l.cells \o [p \in 1..Len(extra) |->
                                       rs[m].cells[ColPos(rc, extra[p])]]]]
  IN [columns |-> lc \o extra,
      rows    |-> Flatten([m \in 1..Len(left.rows) |-> Joined(left.rows[m])])]

Without(s, p) == [q \in 1..(Len(s) - 1) |-> IF q < p THEN s[q] ELSE s[q + 1]]

set_index(df, name) ==
  LET p == ColPos(df.columns, name)
  IN [columns |-> Without(df.columns, p),
      rows    |-> [r \in 1..Len(df.rows) |->
                     [index |-> df.rows[r].cells[p],
                      cells |-> Without(df.rows[r].cells, p)]]]

\* list(range(a, b)): 0-based positions a .. b-1
range(a, b) == IF b > a THEN [q \in 1..(b - a) |-> a + q - 1] ELSE <<>>

\* df.iloc[:, nums] with 0-based column positions
iloc(df, nums) ==
  [columns |-> [q \in 1..Len(nums) |-> df.columns[nums[q] + 1]],
   rows    |-> [r \in 1..Len(df.rows) |->
                  [index |-> df.rows[r].index,
                   cells |-> [q \in 1..Len(nums) |-> df.rows[r].cells[nums[q] + 1]]]]]

RECURSIVE Dedup(_)
Dedup(s) ==
  IF s = <<>> THEN <<>>
  ELSE LET d == Dedup(SubSeq(s, 1, Len(s) - 1))
           x == s[Len(s)]
       IN IF \E q \in 1..Len(d) : d[q] = x THEN d ELSE Append(d, x)

\* pd.concat(frames, axis=1): columns side by side, rows aligned on the index
\* (outer union of the indexes in order of first appearance)
concat(frames) ==
  LET idx == Dedup(Flatten([f \in 1..Len(frames) |->
                              [r \in 1..Len(frames[f].rows) |-> frames[f].rows[r].index]]))
      Cells(f, id) ==
        LET hit == SelectSeq(frames[f].rows, LAMBDA row : row.index = id)
        IN IF hit = <<>> THEN [p \in 1..Len(frames[f].columns) |-> NaN]
           ELSE hit[1].cells
  IN [columns |-> Flatten([f \in 1..Len(frames) |-> frames[f].columns]),
      rows    |-> [r \in 1..Len(idx) |->
                     [index |-> idx[r],
                      cells |-> Flatten([f \in 1..Len(frames) |-> Cells(f, idx[r])])]]]

reset_index(df) ==
  [columns |-> <<"GEOID">> \o df.columns,
   rows    |-> [r \in 1..Len(df.rows) |->
                  [index |-> "", cells |-> <<df.rows[r].index>> \o df.rows[r].cells]]]

WriteCell(c) == IF c = NaN THEN "" ELSE c

\* df.to_csv(f, header=..., index=False): the lines written
to_csv(df, header) ==
  (IF header THEN <<df.columns>> ELSE <<>>)
    \o [r \in 1..Len(df.rows) |->
          [p \in 1..Len(df.columns) |-> WriteCell(df.rows[r].cells[p])]]

\* ------------------------------------------------------------------ state
VARIABLES
  states,          \* cfg['states']
  summary_levels,  \* cfg['level']
  all_tables,      \* cfg['tables']
  appx_A,          \* Appendix A rows: name, seq, start, end
  sourcedir,       \* the downloaded archives, by <<state, suffix>>
  outdir,          \* the CSV files of ACS_tables, by path
  pc,              \* "level", "table", "report", "done", "aborted"
  run,             \* number of the current invocation of main
  i,               \* position in states
  j,               \* position in summary_levels
  n,               \* position in all_tables
  built,           \* tables saved for the open partition
  logi_recs,       \* GEOID / LOGRECNO frame of the open partition
  raised,          \* the exception that left main, "none" if none
  writes,          \* history: one record per to_csv call
  reports,         \* history: one record per 'tables: saved ..., dropped ...' line
  firstrun         \* history: outdir as the first invocation left it

vars == <<states, summary_levels, all_tables, appx_A, sourcedir, outdir, pc, run,
          i, j, n, built, logi_recs, raised, writes, reports, firstrun>>

inputs == <<states, summary_levels, all_tables, appx_A, sourcedir>>

NoFrame == [columns |-> <<>>, rows |-> <<>>]

Init ==
  /\ states \in StateLists
  /\ summary_levels \in LevelLists
  /\ all_tables \in TableLists
  /\ \E se \in ValidSlices("0001") :
        /\ Len(states) = ConsolidatedCount => se = DefaultSlice
        /\ appx_A = Catalog(se)
  /\ \E nrec \in 1..MaxGeoRows, nav \in NaVariants, fault \in Faults :
        sourcedir = SourceDir(nrec, nav, fault)
  /\ outdir = << >>
  /\ pc = "level"
  /\ run = 1
  /\ i = 1
  /\ j = 1
  /\ n = 1
  /\ built = 0
  /\ logi_recs = NoFrame
  /\ raised = "none"
  /\ writes = << >>
  /\ reports = << >>
  /\ firstrun = << >>

\* ------------------------------------------------------------- main loop
state == states[i]
summary_level == summary_levels[j]
table == all_tables[n]

summary_file_suffix(level) ==
  IF level = "140" \/ level = "150" THEN tracts_suffix ELSE not_tracts_suffix

pathname == <<state, summary_file_suffix(summary_level)>>

\* variant of table_csv_pathname that also names the summary level
table_csv_pathname_with_level(st, tbl) ==
  IF Len(states) = ConsolidatedCount THEN <<0, tbl, summary_level>>
  ELSE <<st, tbl, summary_level>>

\* path of the CSV of a table; 0 stands for no state prefix
table_csv_pathname(st, tbl) ==
  IF Len(states) = ConsolidatedCount THEN <<0, tbl>> ELSE <<st, tbl>>

\* variant of slice_frame that takes start as a 0-based position
slice_frame_from_start(text, template, recs, start, end) ==
  LET edf == read_summary_file(text, template)
      merged == set_index(merge(edf, recs), "GEOID")
      use_col_nums == range(start, end)
  IN iloc(merged, use_col_nums)

\* one slice of a table: read, merge with the logical records, keep data columns
slice_frame(text, template, recs, start, end) ==
  LET edf == read_summary_file(text, template)
      merged == set_index(merge(edf, recs), "GEOID")
      use_col_nums == range(start - 1, end)
  IN iloc(merged, use_col_nums)

\* the loop over the slices of a table: the frames collected and how it ended
RECURSIVE read_slices(_, _, _, _)
read_slices(efiles, recs, slices, sequence_data) ==
  IF slices = <<>> THEN [exc |-> "none", sequence_data |-> sequence_data]
  ELSE LET sl == Head(slices)
       IN IF sl.seq \notin DOMAIN efiles
          THEN [exc |-> "KeyError", sequence_data |-> sequence_data]
          ELSE IF ~ efiles[sl.seq].readable
          THEN [exc |-> "OSError", sequence_data |-> sequence_data]
          ELSE read_slices(efiles, recs, Tail(slices),
                           Append(sequence_data,
                                  slice_frame(efiles[sl.seq].text, templates[sl.seq],
                                              recs, sl.start, sl.end)))

\* guard rail of the write
guard_rail(sequence_data) == sequence_data # <<>>

\* variant of header_wanted that writes the header with every write
header_always(file) == TRUE

\* header=f.tell()==0 of a file opened for append
header_wanted(file) == Len(file) = 0

FileAt(dir, path) == IF path \in DOMAIN dir THEN dir[path] ELSE <<>>

\* open(path, 'a') and write lines
append_file(dir, path, lines) ==
  [p \in DOMAIN dir \cup {path} |->
     IF p = path THEN FileAt(dir, path) \o lines ELSE dir[p]]

\* next position of the loops over states and summary levels
Advance ==
  /\ n' = 1
  /\ IF j < Len(summary_levels)
     THEN /\ j' = j + 1
          /\ i' = i
          /\ pc' = "level"
     ELSE /\ j' = 1
          /\ i' = i + 1
          /\ pc' = IF i < Len(states) THEN "level" ELSE "done"

Abort(exc) ==
  /\ pc' = "aborted"
  /\ raised' = exc
  /\ UNCHANGED <<i, j, n>>

\* zipfile.ZipFile(pathname) raises FileNotFoundError: caught, next level
ArchiveMissing ==
  /\ pc = "level"
  /\ pathname \notin DOMAIN sourcedir
  /\ Advance
  /\ UNCHANGED <<inputs, outdir, run, built, logi_recs, raised, writes, reports, firstrun>>

\* zipfile.ZipFile(pathname) raises BadZipFile, which is no OSError
ArchiveBad ==
  /\ pc = "level"
  /\ pathname \in DOMAIN sourcedir
  /\ ~ sourcedir[pathname].iszip
  /\ Abort("BadZipFile")
  /\ UNCHANGED <<inputs, outdir, run, built, logi_recs, writes, reports, firstrun>>

\* [f for f in z.namelist() if ...][0] on an empty list raises IndexError
GeofileAbsent ==
  /\ pc = "level"
  /\ pathname \in DOMAIN sourcedir
  /\ sourcedir[pathname].iszip
  /\ ~ sourcedir[pathname].geofile.present
  /\ Abort("IndexError")
  /\ UNCHANGED <<inputs, outdir, run, built, logi_recs, writes, reports, firstrun>>

\* reading the geography file raises OSError: caught, next level
GeofileError ==
  /\ pc = "level"
  /\ pathname \in DOMAIN sourcedir
  /\ sourcedir[pathname].iszip
  /\ sourcedir[pathname].geofile.present
  /\ ~ sourcedir[pathname].geofile.readable
  /\ Advance
  /\ UNCHANGED <<inputs, outdir, run, built, logi_recs, raised, writes, reports, firstrun>>

PartitionOpened ==
  /\ pc = "level"
  /\ pathname \in DOMAIN sourcedir
  /\ sourcedir[pathname].iszip
  /\ sourcedir[pathname].geofile.present
  /\ sourcedir[pathname].geofile.readable
  /\ logi_recs' = get_logical_records(sourcedir[pathname].geofile.text,
                                      templates["geo"], summary_level)
  /\ built' = 0
  /\ n' = 1
  /\ pc' = "table"
  /\ UNCHANGED <<inputs, outdir, run, i, j, raised, writes, reports, firstrun>>

\* the frames of the current table and how its slice loop ends
CurrentRead ==
  read_slices(sourcedir[pathname].efiles, logi_recs,
              get_appendix_data(appx_A, table), <<>>)

\* one pass of the table loop
BuildTable ==
  /\ pc = "table"
  /\ LET rd == CurrentRead
     IN IF rd.exc = "KeyError"
        THEN /\ Abort("KeyError")
             /\ UNCHANGED <<outdir, built, writes>>
        ELSE /\ IF guard_rail(rd.sequence_data)
                THEN LET df == reset_index(concat(rd.sequence_data))
                         path == table_csv_pathname(state, table)
                         hdr == header_wanted(FileAt(outdir, path))
                         lines == to_csv(df, hdr)
                     IN /\ outdir' = append_file(outdir, path, lines)
                        /\ built' = built + 1
                        /\ writes' = Append(writes,
                              [run |-> run, state |-> state, level |-> summary_level,
                               table |-> table, path |-> path, header |-> hdr,
                               columns |-> df.columns,
                               rows |-> to_csv(df, FALSE),
                               complete |-> rd.exc = "none"])
                ELSE UNCHANGED <<outdir, built, writes>>
             /\ IF n < Len(all_tables)
                THEN /\ n' = n + 1
                     /\ pc' = "table"
                ELSE /\ n' = n
                     /\ pc' = "report"
             /\ UNCHANGED <<i, j, raised>>
  /\ UNCHANGED <<inputs, run, logi_recs, reports, firstrun>>

\* print(f'{state} tables: saved {built}, dropped {n + 1 - built} empty')
ReportPartition ==
  /\ pc = "report"
  /\ reports' = Append(reports,
        [run |-> run, state |-> state, level |-> summary_level,
         saved |-> built, dropped |-> n - built, records |-> Len(logi_recs.rows)])
  /\ Advance
  /\ UNCHANGED <<inputs, outdir, run, built, logi_recs, raised, writes, firstrun>>

\* main is invoked again on the same inputs and the same output directory
Rerun ==
  /\ pc = "done"
  /\ run < MaxRuns
  /\ run' = run + 1
  /\ firstrun' = IF run = 1 THEN outdir ELSE firstrun
  /\ i' = 1
  /\ j' = 1
  /\ n' = 1
  /\ pc' = "level"
  /\ UNCHANGED <<inputs, outdir, built, logi_recs, raised, writes, reports>>

Next ==
  \/ ArchiveMissing
  \/ ArchiveBad
  \/ GeofileAbsent
  \/ GeofileError
  \/ PartitionOpened
  \/ BuildTable
  \/ ReportPartition
  \/ Rerun

Spec == Init /\ [][Next]_vars

TypeOK ==
  /\ pc \in {"level", "table", "report", "done", "aborted"}
  /\ run \in 1..MaxRuns
  /\ built \in 0..Len(all_tables)

\* --------------------------------------------------- auxiliary definitions
Consolidated == Len(states) = ConsolidatedCount

\* every value of the frame is absent (also when it has no rows)
Vacuous(df) ==
  \A r \in 1..Len(df.rows) : \A p \in 1..Len(df.rows[r].cells) : df.rows[r].cells[p] = NaN

CurrentSlices == get_appendix_data(appx_A, table)

\* the GEOIDs of the records of one summary level in a raw geography file
GeoIdsOfLevel(text, level) ==
  {text[r][ColPos(templates["geo"], "GEOID")] :
     r \in {q \in 1..Len(text) : text[q][ColPos(templates["geo"], "SUMLEVEL")] = level}}

GeoTextOf(st, level) == sourcedir[<<st, summary_file_suffix(level)>>].geofile.text

\* the names of the template columns at the 1-based positions start..end
ExpectedColumns(seq, start, end) ==
  [q \in 1..(end - start + 1) |->
     IF templates[seq][start + q - 1] = "SEQUENCE" THEN "seq"
     ELSE templates[seq][start + q - 1]]

WritesTo(path) == SelectSeq(writes, LAMBDA w : w.path = path)

\* ------------------------------------------------------------------ claims

\* C1: a table step whose assembled table has every value column absent in
\* every row (zero rows included) leaves the output directory as it was.
C1_VacuousTableNotWritten ==
  [][(/\ pc = "table"
      /\ CurrentRead.exc # "KeyError"
      /\ CurrentRead.sequence_data # <<>>
      /\ Vacuous(concat(CurrentRead.sequence_data)))
     => outdir' = outdir]_vars

\* C2: in consolidated mode every artifact is one header line followed by the
\* rows of the writes that went to it, in write order; the first write to the
\* artifact wrote the header and no later one did.
C2_HeaderOnceRowsInOrder ==
  Consolidated =>
    \A path \in DOMAIN outdir :
      LET ws == WritesTo(path)
      IN /\ ws # <<>>
         /\ ws[1].header
         /\ \A k \in 2..Len(ws) : ~ ws[k].header
         /\ outdir[path] = <<ws[1].columns>> \o Flatten([k \in 1..Len(ws) |-> ws[k].rows])
         /\ outdir[path][1][1] = "GEOID"
         /\ \A l \in 2..Len(outdir[path]) : outdir[path][l][1] # "GEOID"

\* C2 witness: a consolidated artifact that two different states wrote rows to
C2_Witness ==
  /\ Consolidated
  /\ \E path \in DOMAIN outdir :
       \E a, b \in 1..Len(writes) :
         /\ a < b
         /\ writes[a].path = path /\ writes[b].path = path
         /\ writes[a].state # writes[b].state
         /\ writes[a].rows # <<>> /\ writes[b].rows # <<>>

\* C3: in per-unit mode a second run on the same inputs and the same output
\* directory leaves every artifact as the first run left it.
C3_RerunIdentical ==
  (~ Consolidated /\ run = 2 /\ pc = "done") => outdir = firstrun

\* C4: a table step that finds the estimate file of one sequence of a
\* multi-slice table missing drops the table only: nothing is written, the
\* table loop goes on and no exception leaves main.
C4_MissingSequenceDropsTableOnly ==
  [][(/\ pc = "table"
      /\ Len(CurrentSlices) > 1
      /\ \E k \in 1..Len(CurrentSlices) :
           CurrentSlices[k].seq \notin DOMAIN sourcedir[pathname].efiles)
     => (/\ pc' \in {"table", "report"}
         /\ raised' = "none"
         /\ outdir' = outdir)]_vars

\* C5: a table step in which the read of any slice of a multi-slice table
\* fails writes nothing of that table.
C5_NoPartialEmission ==
  [][(/\ pc = "table"
      /\ Len(CurrentSlices) > 1
      /\ CurrentRead.exc # "none")
     => outdir' = outdir]_vars

\* C6: a partition whose archive cannot be opened, holds no geography file or
\* whose geography file cannot be read is skipped: the loop goes on to the
\* next level or state (or ends normally) and no exception leaves main.
C6_PartitionFailureConfined ==
  [][(/\ pc = "level"
      /\ \/ pathname \notin DOMAIN sourcedir
         \/ ~ sourcedir[pathname].iszip
         \/ ~ sourcedir[pathname].geofile.present
         \/ ~ sourcedir[pathname].geofile.readable)
     => (/\ pc' \in {"level", "done"}
         /\ raised' = "none")]_vars

\* C7: the projection of a slice (start, end) has end - start + 1 columns,
\* the template columns at the 1-based positions start..end, and every row
\* holds the fields of its estimate record at those positions; a completely
\* read table is written with the identifier and then these columns.
C7_SliceProjection ==
  /\ pc = "table" =>
       \A k \in 1..Len(CurrentSlices) :
         LET sl == CurrentSlices[k]
             efiles == sourcedir[pathname].efiles
         IN sl.seq \in DOMAIN efiles =>
              LET text == efiles[sl.seq].text
                  geo == sourcedir[pathname].geofile.text
                  f == slice_frame(text, templates[sl.seq], logi_recs, sl.start, sl.end)
              IN /\ Len(f.columns) = sl.end - sl.start + 1
                 /\ f.columns = ExpectedColumns(sl.seq, sl.start, sl.end)
                 /\ \A r \in 1..Len(f.rows) :
                      \E g \in 1..Len(geo), m \in 1..Len(text) :
                        /\ geo[g][ColPos(templates["geo"], "GEOID")] = f.rows[r].index
                        /\ geo[g][ColPos(templates["geo"], "LOGRECNO")]
                             = text[m][ColPos(templates[sl.seq], "LOGRECNO")]
                        /\ f.rows[r].cells =
                             [q \in 1..(sl.end - sl.start + 1) |->
                                ReadCell(text[m][sl.start + q - 1])]
  /\ \A a \in 1..Len(writes) :
       writes[a].complete =>
         LET sls == get_appendix_data(appx_A, writes[a].table)
         IN writes[a].columns =
              <<"GEOID">> \o Flatten([k \in 1..Len(sls) |->
                               ExpectedColumns(sls[k].seq, sls[k].start, sls[k].end)])

\* C7 witness: table B01 was written with rows under a swept slice of more
\* than one column
C7_Witness ==
  \E a \in 1..Len(writes) :
    /\ writes[a].table = "B01"
    /\ writes[a].rows # <<>>
    /\ Len(writes[a].columns) > 2
    /\ \E k \in 1..Len(appx_A) :
         /\ appx_A[k].name = "B01"
         /\ <<appx_A[k].start, appx_A[k].end>> # DefaultSlice
         /\ Len(writes[a].columns) = appx_A[k].end - appx_A[k].start + 2

\* C8: a partition whose geography index has no record of the requested level
\* is reported with saved = 0 and no write was made for it.
C8_AbsentLevelBuildsNothing ==
  \A k \in 1..Len(reports) :
    reports[k].records = 0 =>
      /\ reports[k].saved = 0
      /\ reports[k].dropped = Len(all_tables)
      /\ \A a \in 1..Len(writes) :
           ~ (/\ writes[a].run = reports[k].run
              /\ writes[a].state = reports[k].state
              /\ writes[a].level = reports[k].level)

\* C9: every row of the join of a sequence with the geography index, and every
\* row written to an artifact, carries a GEOID that the geography file of the
\* partition lists under the requested summary level.
C9_JoinedIdsFromGeography ==
  /\ pc = "table" =>
       /\ \A r \in 1..Len(logi_recs.rows) :
            logi_recs.rows[r].cells[ColPos(logi_recs.columns, "GEOID")]
              \in GeoIdsOfLevel(GeoTextOf(state, summary_level), summary_level)
       /\ \A q \in DOMAIN sourcedir[pathname].efiles :
            LET joined == set_index(merge(read_summary_file(
                                            sourcedir[pathname].efiles[q].text,
                                            templates[q]),
                                          logi_recs), "GEOID")
            IN \A r \in 1..Len(joined.rows) :
                 joined.rows[r].index
                   \in GeoIdsOfLevel(GeoTextOf(state, summary_level), summary_level)
  /\ \A a \in 1..Len(writes) :
       \A r \in 1..Len(writes[a].rows) :
         writes[a].rows[r][1]
           \in GeoIdsOfLevel(GeoTextOf(writes[a].state, writes[a].level), writes[a].level)

\* C9 witness: rows were written for a level while the geography file of the
\* partition also lists records of another level
C9_Witness ==
  \E a \in 1..Len(writes) :
    /\ writes[a].rows # <<>>
    /\ \E other \in {"040", "050"} :
         /\ other # writes[a].level
         /\ GeoIdsOfLevel(GeoTextOf(writes[a].state, writes[a].level), other) # {}

\* C10: the artifact of a write is determined by the table (consolidated
\* mode) or by state and table (otherwise) and never by the summary level:
\* writes of the same table (and state) go to the same artifact whatever
\* their level, writes of different tables (or states) to different ones,
\* and the artifact keeps a single header line above the rows of all levels.
C10_ArtifactIgnoresLevel ==
  /\ \A a, b \in 1..Len(writes) :
       writes[a].path = writes[b].path
         <=> /\ writes[a].table = writes[b].table
             /\ Consolidated \/ writes[a].state = writes[b].state
  /\ \A path \in DOMAIN outdir :
       /\ outdir[path] # <<>>
       /\ \A l \in 1..Len(outdir[path]) : (outdir[path][l][1] = "GEOID") <=> (l = 1)

\* C10 witness: one artifact holds rows written for two different levels
C10_Witness ==
  \E a, b \in 1..Len(writes) :
    /\ writes[a].path = writes[b].path
    /\ writes[a].level # writes[b].level
    /\ writes[a].rows # <<>> /\ writes[b].rows # <<>>
    /\ writes[a].path \in DOMAIN outdir
    /\ Len(outdir[writes[a].path]) >= 1 + Len(writes[a].rows) + Len(writes[b].rows)

====
